---- MODULE Spec2Model ----
(***************************************************************************)
(* A model of serious.py, a spaced repetition program: the Item table of   *)
(* the SQLite database, the `add` sub-command that imports csv files, and  *)
(* the review session (load_items, start_review, review) with its heap of  *)
(* Items ordered by review_time.  One run of main() at a time works on the *)
(* database; the database and the clock outlive the runs.                  *)
(***************************************************************************)
EXTENDS Integers, Sequences, FiniteSets, TLC

VARIABLES
    db,          \* the Item table: a sequence of rows, the rowid is the index
    now,         \* time.time(), in clock readings of 1/Scale second
    pc,          \* where the running main() is: idle, import, loop, question,
                 \* answer, report, exited, error
    args,        \* the argparse.Namespace of the run
    intervals,   \* compute_intervals(...) of the run, indexed from 0
    items,       \* the heap list of start_review
    item,        \* the local `item` of start_review
    review_item, \* the ReviewItem handed to review()
    result,      \* the local `result` of start_review
    x,           \* the last input read at the question prompt
    y,           \* the last input read at the answer prompt
    fileIdx,     \* position of add_items_from_files in args.filenames
    printed,     \* what the run has printed
    error,       \* the exception that ended the run, "" when none
    answered     \* history of the run, in a specification that keeps it:
                 \* the Items load_items returned and, for each loaded
                 \* rowid, the inputs (q, r, f) that ended a presentation
                 \* of its card

vars == <<db, now, pc, args, intervals, items, item, review_item, result,
          x, y, fileIdx, printed, error, answered>>

-----------------------------------------------------------------------------
(* Bounds of the model *)

\* clock readings per second: the clock is finer than the whole seconds
\* that int(...) keeps
Scale == 2

\* the hours until the clock of the model stops
MaxHours == 4

\* reviews recorded in the table, over all cards and runs
MaxReviews == 3

-----------------------------------------------------------------------------
(* Inputs *)

DEFAULT_DECK == "default"

Decks == {DEFAULT_DECK, "other"}

\* the csv files an `add` run may name: rows of <<question, answer>>
Files ==
    [name \in {"a.csv", "b.csv", "c.csv"} |->
        CASE name = "a.csv" -> << <<"q1", "a1">>, <<"q2", "a2">> >>
          [] name = "b.csv" -> << <<"q2", "a2">>, <<"q3", "a3">> >>
          [] name = "c.csv" -> << <<"q3", "a3">> >>]

\* args.filenames of an `add` run
FilenameLists == { <<"a.csv">>, <<"b.csv", "c.csv">> }

\* --reviews-param and --hours-param of a run, with hours + 1 a power of
\* the ladder's base so that the interval table is in whole seconds
Params == { <<1, 1>>, <<2, 3>> }

\* the same of an `add` run, which computes the table and never reads it
AddParams == { <<2, 3>> }

\* args.decks of a review run, as line 106 splits --decks
DeckFilters ==
    { <<>>, <<"other">>, <<DEFAULT_DECK, DEFAULT_DECK>>, <<DEFAULT_DECK, "other">> }

\* what the user may type at a prompt
Inputs == {"a", "q", "r", "f"}

-----------------------------------------------------------------------------
(* Item and ReviewItem *)

Item(rowid, review_time, trial) ==
    [rowid |-> rowid, review_time |-> review_time, trial |-> trial]

\* Item.__lt__
lt(a, b) == a.review_time < b.review_time

\* the value of `item` before the first heappop binds it
NoItem == Item(0, 0, 0)

NoReviewItem ==
    [item |-> NoItem, recalled |-> 0, forgot |-> 0,
     question |-> "", answer |-> "", history |-> <<>>]

Min(a, b) == IF a < b THEN a ELSE b

RECURSIVE Pow(_, _)
Pow(b, n) == IF n = 0 THEN 1 ELSE b * Pow(b, n - 1)

-----------------------------------------------------------------------------
(* heapq, as start_review and load_items use it.  Positions are Python's,  *)
(* from 0; heap[pos + 1] is Python's heap[pos].                            *)

RECURSIVE siftdown_loop(_, _, _, _)
siftdown_loop(heap, startpos, pos, newitem) ==
    IF pos > startpos
    THEN LET parentpos == (pos - 1) \div 2
             parent == heap[parentpos + 1]
         IN  IF lt(newitem, parent)
             THEN siftdown_loop([heap EXCEPT ![pos + 1] = parent],
                                startpos, parentpos, newitem)
             ELSE [heap EXCEPT ![pos + 1] = newitem]
    ELSE [heap EXCEPT ![pos + 1] = newitem]

siftdown(heap, startpos, pos) ==
    siftdown_loop(heap, startpos, pos, heap[pos + 1])

\* the first loop of _siftup: move the smaller child up until a leaf;
\* gives the heap and the position left free
RECURSIVE siftup_loop(_, _)
siftup_loop(heap, pos) ==
    LET endpos == Len(heap)
        childpos == 2 * pos + 1
        rightpos == childpos + 1
        smaller ==
            IF rightpos < endpos /\ ~lt(heap[childpos + 1], heap[rightpos + 1])
            THEN rightpos
            ELSE childpos
    IN  IF childpos < endpos
        THEN siftup_loop([heap EXCEPT ![pos + 1] = heap[smaller + 1]], smaller)
        ELSE <<heap, pos>>

siftup(heap, pos) ==
    LET newitem == heap[pos + 1]
        moved == siftup_loop(heap, pos)
        placed == [moved[1] EXCEPT ![moved[2] + 1] = newitem]
    IN  siftdown(placed, pos, moved[2])

\* load_items without its heapify call
heapify_skipped(list) == list

RECURSIVE heapify_from(_, _)
heapify_from(heap, i) ==
    IF i < 0 THEN heap ELSE heapify_from(siftup(heap, i), i - 1)

heapify(list) == heapify_from(list, (Len(list) \div 2) - 1)

heappush(heap, it) == siftdown(Append(heap, it), 0, Len(heap))

\* <<the item returned, the heap left>>
heappop(heap) ==
    LET lastelt == heap[Len(heap)]
        rest == SubSeq(heap, 1, Len(heap) - 1)
    IN  IF rest # <<>>
        THEN <<rest[1], siftup([rest EXCEPT ![1] = lastelt], 0)>>
        ELSE <<lastelt, rest>>

-----------------------------------------------------------------------------
(* The spacing algorithm *)

\* the ladder's base: exp(ln(hours + 1) / trials)
Base(trials, hours) ==
    CHOOSE b \in 1..(hours + 1) : Pow(b, trials) = hours + 1

\* the table with range(trials + 2): one rung too many
compute_intervals_long(trials, hours) ==
    [n \in 0..(trials + 1) |-> (Pow(Base(trials, hours), n) - 1) * 60 * 60]

\* the table without the `- 1`: exp(n * c) * 60 * 60
compute_intervals_no_offset(trials, hours) ==
    [n \in 0..trials |-> Pow(Base(trials, hours), n) * 60 * 60]

\* (exp(n * c) - 1) * 60 * 60 for n in range(trials + 1), in seconds
compute_intervals(trials, hours) ==
    [n \in 0..trials |-> (Pow(Base(trials, hours), n) - 1) * 60 * 60]

\* len(intervals)
len(list) == Cardinality(DOMAIN list)

\* list[i] raises IndexError
IndexError(list, i) == ~(-len(list) <= i /\ i < len(list))

\* list[i] of a list indexed from 0, a negative i counting from the end
getitem(list, i) == list[IF i < 0 THEN i + len(list) ELSE i]

\* _update_items without the interval: int(time.time())
update_items_no_interval(it, ivals, trial) ==
    Item(it.rowid, now \div Scale, trial)

\* _update_items looking up the interval of the trial the Item had
update_items_old_trial(it, ivals, trial) ==
    Item(it.rowid, (now + getitem(ivals, it.trial) * Scale) \div Scale, trial)

\* int(time.time() + intervals[trial])
update_items(it, ivals, trial) ==
    Item(it.rowid, (now + getitem(ivals, trial) * Scale) \div Scale, trial)

\* add_success without the cap of min(...)
success_trial_uncapped(it, ivals) == it.trial + 1

success_trial(it, ivals) == Min(len(ivals) - 1, it.trial + 1)

add_success(it, ivals) == update_items(it, ivals, success_trial(it, ivals))

\* add_failure stepping one rung down instead of halving
failure_trial_decrement(it, ivals) == it.trial - 1

failure_trial(it, ivals) == it.trial \div 2

add_failure(it, ivals) == update_items(it, ivals, failure_trial(it, ivals))

-----------------------------------------------------------------------------
(* The Item table *)

\* a row as INSERT INTO Item (question, answer, deck) makes it, the other
\* columns at the defaults of CREATE TABLE
NewRow(question, answer, deck) ==
    [recalled |-> 0, forgot |-> 0, review_time |-> 0, trial |-> 0,
     question |-> question, answer |-> answer,
     history |-> <<>>, deck |-> deck]

\* question VARCHAR UNIQUE
Questions(table) == {table[i].question : i \in DOMAIN table}

\* executemany of the INSERT over a batch of <<question, answer, deck>>:
\* the table with the rows added and whether sqlite3.IntegrityError was raised
RECURSIVE executemany(_, _)
executemany(table, batch) ==
    IF batch = <<>>
    THEN [db |-> table, raised |-> FALSE]
    ELSE LET row == Head(batch)
         IN  IF row[1] \in Questions(table)
             THEN [db |-> table, raised |-> TRUE]
             ELSE executemany(Append(table, NewRow(row[1], row[2], row[3])),
                              Tail(batch))

\* `with db:` commits the batch, or rolls all of it back when it raised
insert_into_item(table, batch) ==
    LET done == executemany(table, batch)
    IN  IF done.raised THEN [db |-> table, raised |-> TRUE] ELSE done

\* the default of add_items's batch_size
batch_size == 1000

RECURSIVE add_items_loop(_, _, _, _)
add_items_loop(table, deck, csv_rows, batch) ==
    IF csv_rows = <<>>
    THEN IF batch # <<>>
         THEN insert_into_item(table, batch)
         ELSE [db |-> table, raised |-> FALSE]
    ELSE LET grown == Append(batch, Append(Head(csv_rows), deck))
         IN  IF Len(grown) >= batch_size
             THEN LET done == insert_into_item(table, grown)
                  IN  IF done.raised
                      THEN done
                      ELSE add_items_loop(done.db, deck, Tail(csv_rows), <<>>)
             ELSE add_items_loop(table, deck, Tail(csv_rows), grown)

add_items(table, deck, csv_rows) == add_items_loop(table, deck, csv_rows, <<>>)

\* the WHERE clause joined with AND: (deck = ?)AND(deck = ?)...
selected_all_terms(table, decks) ==
    {i \in DOMAIN table : \A k \in DOMAIN decks : table[i].deck = decks[k]}

\* the rowids the SELECT of load_items returns: every row when decks is
\* empty, else the rows that satisfy (deck = ?)OR(deck = ?)...
selected(table, decks) ==
    IF decks = <<>>
    THEN DOMAIN table
    ELSE {i \in DOMAIN table : \E k \in DOMAIN decks : table[i].deck = decks[k]}

\* the orders in which a SELECT without ORDER BY may return a set of rows
Orders(rowids) ==
    {o \in [1..Cardinality(rowids) -> rowids] :
        \A i, j \in DOMAIN o : i # j => o[i] # o[j]}

\* one SELECT for each name of decks, the results put one after the other
RECURSIVE select_per_deck_from(_, _, _)
select_per_deck_from(table, decks, k) ==
    IF k > Len(decks)
    THEN {<<>>}
    ELSE {o \o rest :
            o \in Orders({i \in DOMAIN table : table[i].deck = decks[k]}),
            rest \in select_per_deck_from(table, decks, k + 1)}

select_per_deck(table, decks) ==
    IF decks = <<>>
    THEN Orders(DOMAIN table)
    ELSE select_per_deck_from(table, decks, 1)

\* the results the SELECT of load_items may give: each selected row once
select_rowids(table, decks) == Orders(selected(table, decks))

\* load_items, for one order of the rows
load_items(table, order) ==
    heapify([i \in DOMAIN order |->
                Item(order[i], table[order[i]].review_time, table[order[i]].trial)])

\* the UPDATE without `review_time = ?`
update_item_trial_only(it, table, success) ==
    [i \in DOMAIN table |->
        IF i = it.rowid
        THEN [table[i] EXCEPT
                !.trial = it.trial,
                !.recalled = IF success THEN @ + 1 ELSE @,
                !.forgot = IF success THEN @ ELSE @ + 1,
                !.history = Append(@, IF success THEN "o" ELSE "x")]
        ELSE table[i]]

\* the UPDATE without `trial = ?`
update_item_time_only(it, table, success) ==
    [i \in DOMAIN table |->
        IF i = it.rowid
        THEN [table[i] EXCEPT
                !.review_time = it.review_time,
                !.recalled = IF success THEN @ + 1 ELSE @,
                !.forgot = IF success THEN @ ELSE @ + 1,
                !.history = Append(@, IF success THEN "o" ELSE "x")]
        ELSE table[i]]

\* the UPDATE with counter and mark fixed to those of a recalled answer
update_item_always_recalled(it, table, success) ==
    [i \in DOMAIN table |->
        IF i = it.rowid
        THEN [table[i] EXCEPT
                !.review_time = it.review_time,
                !.trial = it.trial,
                !.recalled = @ + 1,
                !.history = Append(@, IF success THEN "o" ELSE "x")]
        ELSE table[i]]

\* the UPDATE of update_item
update_item(it, table, success) ==
    [i \in DOMAIN table |->
        IF i = it.rowid
        THEN [table[i] EXCEPT
                !.review_time = it.review_time,
                !.trial = it.trial,
                !.recalled = IF success THEN @ + 1 ELSE @,
                !.forgot = IF success THEN @ ELSE @ + 1,
                !.history = Append(@, IF success THEN "o" ELSE "x")]
        ELSE table[i]]

make_review_item(it, table) ==
    [item |-> it,
     recalled |-> table[it.rowid].recalled,
     forgot |-> table[it.rowid].forgot,
     question |-> table[it.rowid].question,
     answer |-> table[it.rowid].answer,
     history |-> table[it.rowid].history]

RECURSIVE SumLen(_, _)
SumLen(table, i) ==
    IF i = 0 THEN 0 ELSE Len(table[i].history) + SumLen(table, i - 1)

\* reviews recorded so far
Reviews == SumLen(db, Len(db))

-----------------------------------------------------------------------------
(* The runs of main() *)

NoArgs ==
    [reviews_param |-> 0, hours_param |-> 0, decks |-> <<>>,
     filenames |-> <<>>, deck |-> DEFAULT_DECK]

\* the history of a run that has presented nothing; `kept` says whether
\* the specification records the history
NoHistory(kept) == [kept |-> kept, loaded |-> {}, by |-> <<>>]

\* the history after `input` ended a presentation of the popped card
Answered(input) ==
    IF answered.kept
    THEN [answered EXCEPT !.by[item.rowid] = Append(@, input)]
    ELSE answered

\* the table make_db creates in a new file, and no run yet
Start(kept) ==
    /\ answered = NoHistory(kept)
    /\ db = <<>>
    /\ now = 0
    /\ pc = "idle"
    /\ args = NoArgs
    /\ intervals = <<>>
    /\ items = <<>>
    /\ item = NoItem
    /\ review_item = NoReviewItem
    /\ result = "unset"
    /\ x = ""
    /\ y = ""
    /\ fileIdx = 0
    /\ printed = <<>>
    /\ error = ""

Init == Start(FALSE)

\* time passes: from a whole second to the reading after it, or to the time
\* some card falls due, up to `hours`
Clock(hours) ==
    /\ \/ /\ now % Scale = 0
          /\ now' = now + 1
       \/ \E i \in DOMAIN db :
             /\ db[i].review_time * Scale > now
             /\ db[i].review_time <= hours * 60 * 60
             /\ now' = db[i].review_time * Scale
    /\ UNCHANGED <<db, pc, args, intervals, items, item, review_item, result,
                   x, y, fileIdx, printed, error, answered>>

Tick == Clock(MaxHours)

\* main() with the `add` sub-command, up to the loop of add_items_from_files,
\* for --reviews-param and --hours-param p, the files fs and --deck d
MainAdd(p, fs, d) ==
    /\ pc = "idle"
    /\ args' = [reviews_param |-> p[1], hours_param |-> p[2],
                decks |-> <<>>, filenames |-> fs, deck |-> d]
    /\ intervals' = compute_intervals(p[1], p[2])
    /\ pc' = "import"
    /\ fileIdx' = 1
    /\ UNCHANGED <<db, now, items, item, review_item, result, x, y,
                   printed, error, answered>>

RunAdd == \E p \in AddParams, fs \in FilenameLists, d \in Decks : MainAdd(p, fs, d)

\* the loop of add_items_from_files with the try around the whole loop:
\* the first duplicate ends the import
ImportFile_abort ==
    /\ pc = "import"
    /\ fileIdx <= Len(args.filenames)
    /\ LET csv_filename == args.filenames[fileIdx]
           done == add_items(db, args.deck, Files[csv_filename])
       IN  /\ db' = done.db
           /\ printed' = IF done.raised
                         THEN Append(printed, [msg |-> "Duplicate question in file",
                                               file |-> csv_filename])
                         ELSE printed
           /\ fileIdx' = IF done.raised THEN Len(args.filenames) + 1
                                        ELSE fileIdx + 1
    /\ UNCHANGED <<now, pc, args, intervals, items, item, review_item,
                   result, x, y, error, answered>>

\* one turn of the loop of add_items_from_files
ImportFile ==
    /\ pc = "import"
    /\ fileIdx <= Len(args.filenames)
    /\ LET csv_filename == args.filenames[fileIdx]
           done == add_items(db, args.deck, Files[csv_filename])
       IN  /\ db' = done.db
           /\ printed' = IF done.raised
                         THEN Append(printed, [msg |-> "Duplicate question in file",
                                               file |-> csv_filename])
                         ELSE printed
    /\ fileIdx' = fileIdx + 1
    /\ UNCHANGED <<now, pc, args, intervals, items, item, review_item,
                   result, x, y, error, answered>>

\* add_items_from_files returns, and main() with it
ImportDone ==
    /\ pc = "import"
    /\ fileIdx > Len(args.filenames)
    /\ pc' = "exited"
    /\ UNCHANGED <<db, now, args, intervals, items, item, review_item,
                   result, x, y, fileIdx, printed, error, answered>>

\* main() without sub-command, up to the call of start_review, for
\* --reviews-param and --hours-param p and the --decks list ds
MainReview(p, ds) ==
    /\ pc = "idle"
    /\ args' = [reviews_param |-> p[1], hours_param |-> p[2],
                decks |-> ds, filenames |-> <<>>, deck |-> DEFAULT_DECK]
    /\ intervals' = compute_intervals(p[1], p[2])
    /\ \E order \in select_rowids(db, ds) :
          items' = load_items(db, order)
    /\ IF items' # <<>>
       THEN /\ pc' = "loop"
            /\ printed' = printed
       ELSE /\ pc' = "exited"
            /\ printed' = <<[msg |-> "No cards scheduled for review"]>>
    /\ answered' =
          IF answered.kept
          THEN [answered EXCEPT
                   !.loaded = {items'[k] : k \in DOMAIN items'},
                   !.by = [i \in {items'[k].rowid : k \in DOMAIN items'} |-> <<>>]]
          ELSE answered
    /\ UNCHANGED <<db, now, item, review_item, result, x, y, fileIdx, error>>

RunReview == \E p \in Params, ds \in DeckFilters : MainReview(p, ds)

\* the guard as `while items:`
Due_nonempty == items # <<>>

\* the guard with `<` in place of `<=`
Due_strict == items # <<>> /\ items[1].review_time * Scale < now

\* the guard of the while loop of start_review
Due == items # <<>> /\ items[1].review_time * Scale <= now

\* the head of the loop: the guard, heappop, make_review_item
LoopHead ==
    /\ pc = "loop"
    /\ IF Due
       THEN LET popped == heappop(items)
            IN  /\ item' = popped[1]
                /\ items' = popped[2]
                /\ review_item' = make_review_item(popped[1], db)
                /\ x' = ""
                /\ y' = ""
                /\ pc' = "question"
       ELSE /\ pc' = "report"
            /\ UNCHANGED <<item, items, review_item, x, y>>
    /\ UNCHANGED <<db, now, args, intervals, result, fileIdx, printed, error,
                   answered>>

\* quit followed by the heappush at the end of the loop body
Quit_reinsert ==
    /\ pc = "question"
    /\ x' = "q"
    /\ result' = "None"
    /\ pc' = "report"
    /\ items' = heappush(items, item)
    /\ answered' = Answered("q")
    /\ UNCHANGED <<db, now, args, intervals, item, review_item, y,
                   fileIdx, printed, error>>

\* review() at the question prompt reads 'q' and returns None; the loop of
\* start_review breaks and start_review returns
Quit ==
    /\ pc = "question"
    /\ x' = "q"
    /\ result' = "None"
    /\ pc' = "report"
    /\ answered' = Answered("q")
    /\ UNCHANGED <<db, now, args, intervals, items, item, review_item, y,
                   fileIdx, printed, error>>

\* review() at the question prompt reads 'a' and goes on to the answer prompt
ShowAnswer ==
    /\ pc = "question"
    /\ x' = "a"
    /\ pc' = "answer"
    /\ UNCHANGED <<db, now, args, intervals, items, item, review_item, result,
                   y, fileIdx, printed, error, answered>>

\* the same while fewer than MaxReviews reviews are recorded
Reveal == Reviews < MaxReviews /\ ShowAnswer

\* review() at the question prompt reads another line and prompts again
QuestionAgain ==
    /\ pc = "question"
    /\ \E line \in Inputs \ {"q", "a"} : x' = line
    /\ UNCHANGED <<db, now, pc, args, intervals, items, item, review_item,
                   result, y, fileIdx, printed, error, answered>>

\* the loop body with the heappush only for an Item that is still due
Reschedule_if_due(success) ==
    LET trial == IF success THEN success_trial(item, intervals)
                            ELSE failure_trial(item, intervals)
        updated == IF success THEN add_success(item, intervals)
                              ELSE add_failure(item, intervals)
    IN  /\ result' = IF success THEN "True" ELSE "False"
        /\ IF IndexError(intervals, trial)
           THEN /\ pc' = "error"
                /\ error' = "IndexError"
                /\ UNCHANGED <<db, items, item>>
           ELSE /\ item' = updated
                /\ db' = update_item(updated, db, success)
                /\ items' = IF updated.review_time * Scale <= now
                            THEN heappush(items, updated)
                            ELSE items
                /\ pc' = "loop"
                /\ error' = error

\* the rest of the loop body after review() gave True or False: add_success
\* or add_failure, update_item, heappush
Reschedule(success) ==
    LET trial == IF success THEN success_trial(item, intervals)
                            ELSE failure_trial(item, intervals)
        updated == IF success THEN add_success(item, intervals)
                              ELSE add_failure(item, intervals)
    IN  /\ result' = IF success THEN "True" ELSE "False"
        /\ IF IndexError(intervals, trial)
           THEN /\ pc' = "error"
                /\ error' = "IndexError"
                /\ UNCHANGED <<db, items, item>>
           ELSE /\ item' = updated
                /\ db' = update_item(updated, db, success)
                /\ items' = heappush(items, updated)
                /\ pc' = "loop"
                /\ error' = error

\* review() at the answer prompt reads 'r' and returns True
Recalled ==
    /\ pc = "answer"
    /\ y' = "r"
    /\ Reschedule(TRUE)
    /\ answered' = Answered("r")
    /\ UNCHANGED <<now, args, intervals, review_item, x, fileIdx, printed>>

\* review() at the answer prompt reads 'f' and returns False
Forgot ==
    /\ pc = "answer"
    /\ y' = "f"
    /\ Reschedule(FALSE)
    /\ answered' = Answered("f")
    /\ UNCHANGED <<now, args, intervals, review_item, x, fileIdx, printed>>

\* review() at the answer prompt reads another line and prompts again
AnswerAgain ==
    /\ pc = "answer"
    /\ \E line \in Inputs \ {"r", "f"} : y' = line
    /\ UNCHANGED <<db, now, pc, args, intervals, items, item, review_item,
                   result, x, fileIdx, printed, error, answered>>

\* main() after start_review returned: the line that prints items[0]
Report ==
    /\ pc = "report"
    /\ IF IndexError(items, 0)
       THEN /\ pc' = "error"
            /\ error' = "IndexError"
            /\ printed' = printed
       ELSE /\ pc' = "exited"
            /\ error' = error
            /\ printed' = Append(printed, [msg |-> "Next review scheduled for",
                                           time |-> items[1].review_time])
    /\ UNCHANGED <<db, now, args, intervals, items, item, review_item,
                   result, x, y, fileIdx, answered>>

\* the process ends; the database file and the clock stay
Exit ==
    /\ pc \in {"exited", "error"}
    /\ pc' = "idle"
    /\ args' = NoArgs
    /\ intervals' = <<>>
    /\ items' = <<>>
    /\ item' = NoItem
    /\ review_item' = NoReviewItem
    /\ result' = "unset"
    /\ x' = ""
    /\ y' = ""
    /\ fileIdx' = 0
    /\ printed' = <<>>
    /\ error' = ""
    /\ answered' = NoHistory(answered.kept)
    /\ UNCHANGED <<db, now>>

Next ==
    \/ Tick
    \/ RunAdd
    \/ ImportFile
    \/ ImportDone
    \/ RunReview
    \/ LoopHead
    \/ Quit
    \/ Reveal
    \/ QuestionAgain
    \/ Recalled
    \/ Forgot
    \/ AnswerAgain
    \/ Report
    \/ Exit

Spec == Init /\ [][Next]_vars

-----------------------------------------------------------------------------
(* One card over runs with different ladders: the runs of a user who reviews *)
(* with --reviews-param 4 --hours-param 15 and later with the defaults of a  *)
(* shorter ladder.                                                           *)

\* --reviews-param and --hours-param of the runs
LadderParams == { <<4, 15>>, <<1, 1>> }

\* the hours until the clock stops: the card recalled at 0, 1, 4 and 11
\* hours on the ladder of four is due at 26 hours
LadderHours == 26

\* reviews recorded in the table
LadderReviews == 5

LadderTick == Clock(LadderHours)

LadderAdd == \E p \in AddParams : MainAdd(p, <<"c.csv">>, DEFAULT_DECK)

LadderReview == \E p \in LadderParams : MainReview(p, <<>>)

LadderReveal == Reviews < LadderReviews /\ ShowAnswer

LadderNext ==
    \/ LadderTick
    \/ LadderAdd
    \/ ImportFile
    \/ ImportDone
    \/ LadderReview
    \/ LoopHead
    \/ Quit
    \/ LadderReveal
    \/ QuestionAgain
    \/ Recalled
    \/ Forgot
    \/ AnswerAgain
    \/ Report
    \/ Exit

LadderSpec == Init /\ [][LadderNext]_vars

-----------------------------------------------------------------------------
(* Runs during which the clock stands still, with a user who ends every     *)
(* prompt by a line the prompt knows and answers forgot MaxForgots times at *)
(* most.  The history of each run is kept.                                  *)

\* the hours until the clock stops
CalmHours == 1

\* forgot answers recorded in the table
MaxForgots == 1

RECURSIVE SumForgot(_, _)
SumForgot(table, i) ==
    IF i = 0 THEN 0 ELSE table[i].forgot + SumForgot(table, i - 1)

CalmInit == Start(TRUE)

\* time passes between the runs
CalmTick == pc = "idle" /\ Clock(CalmHours)

CalmAdd == \E p \in AddParams, fs \in FilenameLists : MainAdd(p, fs, DEFAULT_DECK)

CalmReview == \E p \in Params : MainReview(p, <<>>)

CalmForgot == SumForgot(db, Len(db)) < MaxForgots /\ Forgot

CalmNext ==
    \/ CalmTick
    \/ CalmAdd
    \/ ImportFile
    \/ ImportDone
    \/ CalmReview
    \/ LoopHead
    \/ Quit
    \/ ShowAnswer
    \/ QuestionAgain
    \/ Recalled
    \/ CalmForgot
    \/ AnswerAgain
    \/ Report
    \/ Exit

\* the loop goes on by itself, and the user ends each prompt at last
CalmSpec ==
    /\ CalmInit
    /\ [][CalmNext]_vars
    /\ WF_vars(LoopHead)
    /\ WF_vars(Quit \/ ShowAnswer)
    /\ WF_vars(Recalled \/ CalmForgot)

-----------------------------------------------------------------------------
(* Properties *)

\* where a review run is between load_items and the end of main()
ReviewPcs == {"loop", "question", "answer", "report"}

QueueItems == {items[i] : i \in DOMAIN items}

\* the Items of the run: those in the heap and the one popped
SessionItems == QueueItems \cup (IF item = NoItem THEN {} ELSE {item})

DuplicateLine(file) == [msg |-> "Duplicate question in file", file |-> file]

Lines(seq) == {seq[i] : i \in DOMAIN seq}

\* ---- C1 ----
ValidTrial(t) == 0 <= t /\ t <= args.reviews_param /\ t \in DOMAIN intervals

TrialsValid ==
    \A it \in SessionItems :
        ValidTrial(it.trial) /\ ValidTrial(db[it.rowid].trial)

\* C1: in a review run with reviews_param r, if the trial of every loaded
\* card, stored and in the Item, is within 0..r, a valid index of the r + 1
\* intervals, then it is so after every step of the run.
C1_TrialStaysValidIndex ==
    [][(pc \in ReviewPcs /\ TrialsValid) => TrialsValid']_vars

\* a card at trial r was recalled once more and is back in the heap
C1_Witness ==
    /\ pc = "loop"
    /\ result = "True"
    /\ review_item.item.trial = args.reviews_param
    /\ item.trial = args.reviews_param
    /\ item \in QueueItems
    /\ TrialsValid

\* ---- C2 ----
RECURSIVE TrialAfterSuccesses(_)
TrialAfterSuccesses(k) ==
    IF k = 0
    THEN 0
    ELSE success_trial(Item(0, 0, TrialAfterSuccesses(k - 1)), intervals)

C2_Ladder ==
    pc \in ReviewPcs =>
        \A k \in 0..(len(intervals) + 1) :
            TrialAfterSuccesses(k) = Min(k, len(intervals) - 1)

C2_RecalledStep ==
    (pc = "answer" /\ pc' # "answer" /\ y' = "r") =>
        /\ pc' = "loop"
        /\ item'.rowid = item.rowid
        /\ item'.trial = Min(len(intervals) - 1, item.trial + 1)
        /\ db'[item.rowid].trial = item'.trial

\* C2: a recalled answer takes the card from trial t to min(r, t + 1), with
\* r = len(intervals) - 1; k successes from trial 0 give min(k, r), so r is
\* reached after exactly r of them and kept from then on.
C2_SuccessLadder == []C2_Ladder /\ [][C2_RecalledStep]_vars

\* a card has gone from trial 0 to r = 2 by exactly two recalled answers
C2_Witness ==
    /\ pc = "loop"
    /\ result = "True"
    /\ len(intervals) - 1 = 2
    /\ item.trial = 2
    /\ db[item.rowid].history = <<"o", "o">>

C4_QuitLeavesCardAsItWas ==
    [][/\ (pc = "question" /\ x' = "q") =>
            /\ pc' = "report"
            /\ result' = "None"
            /\ db' = db
            /\ items' = items
            /\ \A i \in DOMAIN items' : items'[i].rowid # item.rowid
            /\ db'[item.rowid].trial = item.trial
            /\ db'[item.rowid].review_time = item.review_time
            /\ db'[item.rowid].recalled = review_item.recalled
            /\ db'[item.rowid].forgot = review_item.forgot
            /\ db'[item.rowid].history = review_item.history
            /\ db'[item.rowid].review_time * Scale <= now'
       /\ result = "None" => pc' \in {"report", "exited", "error", "idle"}
      ]_vars

\* quit on a card that had been reviewed before, other cards left in the heap
C4_Witness ==
    /\ pc = "report"
    /\ result = "None"
    /\ db[item.rowid].history # <<>>
    /\ items # <<>>

\* ---- C5 ----
ReviewedRow(old, new, it, success) ==
    /\ new.trial = it.trial
    /\ new.review_time = it.review_time
    /\ new.review_time = (now + getitem(intervals, new.trial) * Scale) \div Scale
    /\ new.recalled = old.recalled + (IF success THEN 1 ELSE 0)
    /\ new.forgot = old.forgot + (IF success THEN 0 ELSE 1)
    /\ new.history = Append(old.history, IF success THEN "o" ELSE "x")
    /\ new.question = old.question
    /\ new.answer = old.answer
    /\ new.deck = old.deck

\* C5: a row of the table changes only in the step that completes a review
\* of its card, and that step writes the new trial and the new review_time
\* together, adds 1 to recalled or to forgot as the answer was and leaves the
\* other, appends one 'o' or 'x' to history, and changes no other row.
C5_UpdateIsOneStep ==
    [][/\ DOMAIN db \subseteq DOMAIN db'
       /\ \A i \in DOMAIN db :
             db'[i] # db[i] =>
                 /\ pc = "answer" /\ pc' = "loop"
                 /\ i = item.rowid
                 /\ y' \in {"r", "f"}
                 /\ ReviewedRow(db[i], db'[i], item', y' = "r")
       /\ (pc = "answer" /\ pc' = "loop") =>
             db'[item.rowid] # db[item.rowid]
      ]_vars

\* a card recalled once has now been forgotten, among other cards
C5_Witness ==
    /\ pc = "loop"
    /\ result = "False"
    /\ Len(db) >= 2
    /\ db[item.rowid].recalled = 1
    /\ db[item.rowid].forgot = 1
    /\ db[item.rowid].history = <<"o", "x">>

\* ---- C6 ----
NothingDue == \A it \in QueueItems : it.review_time * Scale > now

\* C6: the loop presents a card only when the heap is not empty and the
\* Item popped is due; the loop is left only when the heap is empty or holds
\* no due Item, or on quit; a row is updated only when its card was due.
C6_OnlyDueCardsPresented ==
    [][/\ (pc = "loop" /\ pc' = "question") =>
            /\ items # <<>>
            /\ item' \in QueueItems
            /\ item'.review_time * Scale <= now
            /\ db[item'.rowid].review_time * Scale <= now
       /\ (pc = "loop" /\ pc' # "loop") =>
            /\ pc' \in {"question", "report"}
            /\ pc' = "report" <=> (items = <<>> \/ NothingDue)
       /\ (pc # "report" /\ pc' = "report") =>
            \/ pc = "loop" /\ (items = <<>> \/ NothingDue)
            \/ pc = "question" /\ x' = "q"
       /\ (pc = "answer" /\ pc' = "loop") =>
            db[item.rowid].review_time * Scale <= now
      ]_vars

\* the loop ended after a review because the cards left are due later
C6_Witness ==
    /\ pc = "report"
    /\ result = "True"
    /\ items # <<>>
    /\ NothingDue

\* ---- C7 ----
RECURSIVE Drain(_)
Drain(heap) ==
    IF heap = <<>>
    THEN <<>>
    ELSE LET popped == heappop(heap) IN <<popped[1]>> \o Drain(popped[2])

NonDecreasing(seq) ==
    \A i \in 1..(Len(seq) - 1) : seq[i].review_time <= seq[i + 1].review_time

C7_PopStep ==
    (pc = "loop" /\ pc' = "question") =>
        /\ \A i \in DOMAIN items : item'.review_time <= items[i].review_time
        /\ Len(items') = Len(items) - 1
        /\ QueueItems = QueueItems' \cup {item'}

\* C7: every heappop of the loop gives an Item whose review_time is at most
\* that of every Item left, whatever pops and pushes came before; popping
\* all the Items of the heap gives them in non-decreasing review_time.
C7_PopsEarliest == [](NonDecreasing(Drain(items))) /\ [][C7_PopStep]_vars

\* a rescheduled Item was popped and two Items of different times are left
C7_Witness ==
    /\ pc = "question"
    /\ item.review_time > 0
    /\ Len(items) = 2
    /\ items[1].review_time # items[2].review_time

\* ---- C8 ----
\* C8: no rowid is twice in the heap, and the Item being presented is not in
\* the heap.
C8_EachIdentityOnce ==
    /\ \A i, j \in DOMAIN items : i # j => items[i].rowid # items[j].rowid
    /\ pc \in {"question", "answer"} =>
          \A i \in DOMAIN items : items[i].rowid # item.rowid

\* a run whose --decks names a deck twice, after a review, with a card
\* presented and others in the heap
C8_Witness ==
    /\ pc = "question"
    /\ args.decks = <<DEFAULT_DECK, DEFAULT_DECK>>
    /\ result = "True"
    /\ Len(items) >= 1

\* ---- C9 ----
NextLine == [msg |-> "Next review scheduled for", time |-> items[1].review_time]

\* C9: when the loop has ended, main() ends without error; it prints the
\* next review time if and only if the heap is not empty, and the time is
\* the least review_time of the heap.
C9_ReportAfterLoop ==
    [][(pc = "report" /\ pc' # "report") =>
          /\ pc' = "exited"
          /\ error' = ""
          /\ items = <<>> => printed' = printed
          /\ items # <<>> =>
                /\ printed' = Append(printed, NextLine)
                /\ \A it \in QueueItems : items[1].review_time <= it.review_time
      ]_vars

\* ---- C10 ----
FileQuestions(file) == {Files[file][k][1] : k \in DOMAIN Files[file]}

C10_Unique ==
    \A i, j \in DOMAIN db : i # j => db[i].question # db[j].question

C10_Done ==
    (pc = "exited" /\ args.filenames # <<>>) =>
        \A k \in DOMAIN args.filenames :
            \/ DuplicateLine(args.filenames[k]) \in Lines(printed)
            \/ FileQuestions(args.filenames[k]) \subseteq Questions(db)

C10_ImportStep ==
    (pc = "import" /\ fileIdx <= Len(args.filenames) /\ now' = now) =>
        LET file == args.filenames[fileIdx]
            reported == printed' = Append(printed, DuplicateLine(file))
        IN  /\ pc' = "import"
            /\ fileIdx' = fileIdx + 1
            /\ error' = ""
            /\ reported \/ printed' = printed
            /\ FileQuestions(file) \cap Questions(db) # {} => reported
            /\ ~reported => FileQuestions(file) \subseteq Questions(db')
            /\ \A i \in DOMAIN db : i \in DOMAIN db' /\ db'[i] = db[i]

\* C10: a file with a question that is already stored is reported as a
\* duplicate, questions stay unique in the table, the import goes on with
\* the next file, every file of the run ends up reported or stored, and no
\* existing row changes.
C10_DuplicateFileSkipped ==
    [](C10_Unique /\ C10_Done) /\ [][C10_ImportStep]_vars

\* b.csv was reported, c.csv after it was imported, a reviewed card is there
C10_Witness ==
    /\ pc = "exited"
    /\ args.filenames = <<"b.csv", "c.csv">>
    /\ printed = <<DuplicateLine("b.csv")>>
    /\ "q3" \in Questions(db)
    /\ \E i \in DOMAIN db : db[i].history # <<>>

\* ---- C12 ----
C12_Unreviewed ==
    \A i \in DOMAIN db :
        db[i].history = <<>> => (db[i].trial = 0 /\ db[i].review_time = 0)

C12_WrittenByReviewOnly ==
    \A i \in DOMAIN db :
        db'[i].review_time # db[i].review_time =>
            (pc = "answer" /\ pc' = "loop" /\ i = item.rowid)

\* the review_time a review update stores, from the trial it stores
C12_StoredTime ==
    (pc = "answer" /\ pc' = "loop") =>
        LET row == db'[item.rowid]
        IN  /\ row.trial = item'.trial
            /\ row.review_time =
                   (now + getitem(intervals, row.trial) * Scale) \div Scale

\* C12 as the specification states it: the review_time a review update stores
\* is int(update time + intervals[new trial]) and is not before the update
\* time; a card never reviewed has trial 0 and review_time 0; only a review
\* update writes review_time.
C12_NotBeforeUpdateTime ==
    /\ []C12_Unreviewed
    /\ [][/\ C12_WrittenByReviewOnly
          /\ C12_StoredTime
          /\ (pc = "answer" /\ pc' = "loop") =>
                db'[item.rowid].review_time * Scale >= now]_vars

\* C12: the review_time a review update stores is
\* int(update time + intervals[new trial]) for the trial stored with it,
\* which is later than one second before the update time; a card never
\* reviewed has trial 0 and review_time 0; only a review update writes
\* review_time.
C12_TruncatedToSeconds ==
    /\ []C12_Unreviewed
    /\ [][/\ C12_WrittenByReviewOnly
          /\ C12_StoredTime
          /\ (pc = "answer" /\ pc' = "loop") =>
                /\ db'[item.rowid].review_time * Scale > now - Scale
                /\ db'[item.rowid].review_time >= now \div Scale]_vars

\* a card was forgotten between two whole seconds and its interval is 0: the
\* review_time stored is before the update time
C12_Witness ==
    /\ pc = "loop"
    /\ result = "False"
    /\ item.trial = 0
    /\ now % Scale # 0
    /\ db[item.rowid].review_time * Scale < now
    /\ \E i \in DOMAIN db : db[i].history = <<>>

\* ---- C13 ----
Count(seq, mark) == Cardinality({k \in DOMAIN seq : seq[k] = mark})

IsPrefix(a, b) == Len(a) <= Len(b) /\ SubSeq(b, 1, Len(a)) = a

C13_Counts ==
    \A i \in DOMAIN db :
        /\ Len(db[i].history) = db[i].recalled + db[i].forgot
        /\ Count(db[i].history, "o") = db[i].recalled
        /\ Count(db[i].history, "x") = db[i].forgot

C13_Step ==
    \A i \in DOMAIN db :
        /\ i \in DOMAIN db'
        /\ db'[i].recalled >= db[i].recalled
        /\ db'[i].forgot >= db[i].forgot
        /\ IsPrefix(db[i].history, db'[i].history)

\* C13: over all runs the recalled and forgot counters of a card never
\* decrease and its history only grows at the end; the length of history is
\* recalled + forgot, its 'o' marks are recalled many and its 'x' marks
\* forgot many.
C13_HistoryMatchesCounters == []C13_Counts /\ [][C13_Step]_vars

\* between runs, a card forgotten and then recalled, another reviewed too
C13_Witness ==
    /\ pc = "idle"
    /\ \E i, j \in DOMAIN db :
          /\ i # j
          /\ db[i].history = <<"x", "o">>
          /\ db[i].recalled = 1
          /\ db[i].forgot = 1
          /\ db[j].history # <<>>

\* ---- C14 ----
Rowids(heap) == {heap[i].rowid : i \in DOMAIN heap}

ExistingDecks(table) == {table[i].deck : i \in DOMAIN table}

\* what load_items may return for a table and a list of decks
Loads(table, decks) ==
    {load_items(table, order) : order \in select_rowids(table, decks)}

\* C14: load_items without a deck filter returns, as a set of rowids, the
\* union of what it returns for each deck of the table named alone, and with
\* a filter exactly the rows whose deck is one of the names; no rowid is
\* returned twice.
C14_LoadByDeck ==
    [][(pc = "idle" /\ pc' \in {"loop", "exited"}) =>
          /\ Len(items') = Cardinality(Rowids(items'))
          /\ args'.decks = <<>> =>
                Rowids(items') =
                    UNION {Rowids(l) : l \in
                              UNION {Loads(db, <<d>>) : d \in ExistingDecks(db)}}
          /\ args'.decks # <<>> =>
                Rowids(items') =
                    {i \in DOMAIN db : db[i].deck \in Lines(args'.decks)}
      ]_vars

\* a table with cards in two decks was loaded with both decks named
C14_Witness ==
    /\ pc = "loop"
    /\ item = NoItem
    /\ args.decks = <<DEFAULT_DECK, "other">>
    /\ ExistingDecks(db) = Decks
    /\ Len(items) = 3

\* ---- C15 ----
\* C15: the table compute_intervals gives for r reviews and h hours has
\* r + 1 entries, the first is 0, the last is h * 3600 seconds, and each
\* entry is greater than the one before.
C15_IntervalTable ==
    pc # "idle" =>
        LET r == args.reviews_param
            h == args.hours_param
        IN  /\ r >= 1 /\ h > 0
            /\ len(intervals) = r + 1
            /\ DOMAIN intervals = 0..r
            /\ intervals[0] = 0
            /\ intervals[r] = h * 60 * 60
            /\ \A k \in 0..(r - 1) : intervals[k] < intervals[k + 1]

\* a run with r = 2 and h = 3 has used the middle entry of its table
C15_Witness ==
    /\ pc = "loop"
    /\ args.reviews_param = 2
    /\ args.hours_param = 3
    /\ result = "True"
    /\ item.trial = 1
    /\ item.review_time = (now \div Scale) + intervals[1]

\* ---- C17 ----
\* the rowids load_items gave the run
Loaded == selected(db, args.decks)

\* C17: at the head of the loop the heap is not empty and holds exactly the
\* rowids that were loaded, a presented card being the only one out of it;
\* after the loop the heap lacks a loaded rowid only after quit, and then
\* the card quit on, so it is empty only after quit on the only loaded card.
C17_QueueKeepsLoaded ==
    /\ pc = "loop" => (items # <<>> /\ Rowids(items) = Loaded)
    /\ pc \in {"question", "answer"} =>
          /\ item.rowid \notin Rowids(items)
          /\ Rowids(items) \cup {item.rowid} = Loaded
    /\ (pc = "report" /\ result # "None") => Rowids(items) = Loaded
    /\ (pc = "report" /\ result = "None") =>
          /\ item.rowid \in Loaded
          /\ Rowids(items) = Loaded \ {item.rowid}
    /\ (pc = "report" /\ items = <<>>) =>
          (result = "None" /\ Cardinality(Loaded) = 1)

\* a recalled card that is no longer due is back in the heap with the others
C17_Witness ==
    /\ pc = "loop"
    /\ result = "True"
    /\ item \in QueueItems
    /\ item.review_time * Scale > now
    /\ Len(items) >= 2
    /\ Rowids(items) = Loaded

\* ---- C18 ----
\* C18: at the head of the loop every Item of the heap has the trial and the
\* review_time of its row, and the step that completes a review stores the
\* trial and the review_time of the Item it puts back.
C18_QueueMatchesTable ==
    /\ [](pc = "loop" =>
            \A it \in QueueItems :
                /\ db[it.rowid].trial = it.trial
                /\ db[it.rowid].review_time = it.review_time)
    /\ [][(pc = "answer" /\ pc' = "loop") =>
            /\ item' \in QueueItems'
            /\ db'[item'.rowid].trial = item'.trial
            /\ db'[item'.rowid].review_time = item'.review_time]_vars

\* two reviewed cards are in the heap, one of them above trial 0
C18_Witness ==
    /\ pc = "loop"
    /\ \E a, b \in QueueItems :
          /\ a.rowid # b.rowid
          /\ a.trial >= 1
          /\ db[a.rowid].history # <<>>
          /\ db[b.rowid].history # <<>>
          /\ a.review_time # b.review_time

\* ---- C19 ----
\* the card just put back was forgotten at trial 0 or 1
ForgottenLow ==
    /\ pc = "loop"
    /\ result = "False"
    /\ review_item.item.trial \in {0, 1}

C19_ForgotLowStep ==
    (pc = "answer" /\ pc' # "answer" /\ y' = "f" /\ item.trial \in {0, 1}) =>
        /\ pc' = "loop"
        /\ item'.rowid = item.rowid
        /\ item'.trial = 0
        /\ item' \in QueueItems'
        /\ items'[1].review_time * Scale <= now'

\* the guard holds: the loop is not left, and the guard goes on holding
C19_GuardHolds ==
    (pc = "loop" /\ items # <<>> /\ items[1].review_time * Scale <= now) =>
        /\ pc' \in {"loop", "question"}
        /\ pc' = "loop" => items'[1].review_time * Scale <= now'

\* no card that is due later is presented before the forgotten card
C19_NoLaterCardFirst ==
    (ForgottenLow /\ pc' = "question") =>
        item'.review_time <= item.review_time

\* C19 as the specification states it: a card forgotten at trial 0 or 1 is
\* stored with trial 0 and review_time equal to the time of the update, is
\* put back, and the guard of the loop holds, so the loop presents a card
\* again and none that is due later than the forgotten one.
C19_DueAtUpdateTime ==
    [][/\ C19_ForgotLowStep
       /\ (pc = "answer" /\ pc' = "loop" /\ y' = "f" /\ item.trial \in {0, 1}) =>
             item'.review_time * Scale = now
       /\ C19_GuardHolds
       /\ C19_NoLaterCardFirst]_vars

\* C19: a card forgotten at trial 0 or 1 is stored with trial 0 and
\* review_time equal to the whole seconds of the time of the update, is put
\* back, and the guard of the loop holds, so the loop presents a card again
\* and none that is due later than the forgotten one.
C19_ForgottenCardStaysDue ==
    [][/\ C19_ForgotLowStep
       /\ (pc = "answer" /\ pc' = "loop" /\ y' = "f" /\ item.trial \in {0, 1}) =>
             item'.review_time = now \div Scale
       /\ C19_GuardHolds
       /\ C19_NoLaterCardFirst]_vars

\* a card forgotten at trial 0 or 1 is presented again in the same run, while a
\* card that is due later waits in the heap
C19_Witness ==
    /\ pc = "question"
    /\ result = "False"
    /\ review_item.item.rowid = item.rowid
    /\ review_item.history # <<>>
    /\ review_item.history[Len(review_item.history)] = "x"
    /\ item.trial = 0
    /\ \E it \in QueueItems : it.review_time > item.review_time

\* ---- C11 ----
\* a line read at the question prompt
C11_QuestionPrompt ==
    (pc = "question" /\ now' = now) =>
        \/ /\ x' = "a"
           /\ pc' = "answer"
           /\ UNCHANGED <<db, items, item, review_item, result>>
        \/ /\ x' = "q"
           /\ pc' = "report"
           /\ result' = "None"
           /\ UNCHANGED <<db, items, item, review_item>>
        \/ /\ x' \notin {"a", "q"}
           /\ UNCHANGED <<db, items, item, review_item, result, pc, y, error>>

\* a line read at the answer prompt
C11_AnswerPrompt ==
    (pc = "answer" /\ now' = now) =>
        \/ /\ y' \in {"r", "f"}
           /\ pc' = "loop"
           /\ result' = (IF y' = "r" THEN "True" ELSE "False")
           /\ db'[item.rowid].history =
                  Append(db[item.rowid].history, IF y' = "r" THEN "o" ELSE "x")
           /\ \A i \in DOMAIN db : i # item.rowid => db'[i] = db[i]
        \/ /\ y' \notin {"r", "f"}
           /\ UNCHANGED <<db, items, item, review_item, result, pc, x, error>>

\* C11: at the question prompt only 'a' and 'q' move on, at the answer
\* prompt only 'r' and 'f'; any other line, 'q' at the answer prompt too,
\* leaves the prompt, the table, the heap and the run as they are; the run
\* is quit only from the question prompt, and a card whose answer is shown
\* leaves the answer prompt only by the one update of a recalled or forgot
\* answer.
C11_PromptInputs ==
    [][/\ C11_QuestionPrompt
       /\ C11_AnswerPrompt
       /\ (result' = "None" /\ result # "None") => (pc = "question" /\ x' = "q")
      ]_vars

\* ---- C16 ----
\* C16: whatever trial the row of a card holds and whatever r >= 1 the run
\* has, a recalled or forgot answer gives a trial within 0..r, a valid index
\* of the intervals, and the review ends with the update stored and no
\* error.
C16_ReviewCompletes ==
    [][(pc = "answer" /\ y' \in {"r", "f"} /\ pc' # "answer") =>
          /\ args.reviews_param >= 1
          /\ pc' = "loop"
          /\ error' = ""
          /\ item'.trial \in 0..args.reviews_param
          /\ ~IndexError(intervals, item'.trial)
          /\ db'[item.rowid].trial = item'.trial
          /\ Len(db'[item.rowid].history) = Len(db[item.rowid].history) + 1
      ]_vars

\* ---- C20 ----
InLoop == pc \in {"loop", "question", "answer"}

\* every presentation of the run that has ended was ended by 'r'
AllRecalled ==
    \A i \in DOMAIN answered.by :
        \A k \in DOMAIN answered.by[i] : answered.by[i][k] = "r"

\* the presentations of the card of rowid i that have ended in the run
Presented(i) == Len(answered.by[i])

C20_OnceEach ==
    (answered.kept /\ pc \in ReviewPcs /\ AllRecalled) =>
        \A i \in DOMAIN answered.by : Presented(i) <= 1

C20_AtExit ==
    (answered.kept /\ pc = "report" /\ AllRecalled) =>
        /\ \A it \in answered.loaded :
              Presented(it.rowid) = IF it.review_time * Scale <= now THEN 1 ELSE 0
        /\ Rowids(items) = {it.rowid : it \in answered.loaded}
        /\ NothingDue

\* C20: while the clock stands still and the user ends every prompt by a
\* line it knows and answers forgot finitely often, with every interval
\* after the first of one second or more, the loop of start_review comes to
\* its end; when every answer of the run was recalled, each card that was
\* due when the run loaded it has been presented exactly once and no other
\* card has, and the loop ends with every loaded card in the heap and none
\* of them due.
C20_SessionEnds ==
    /\ [](\A k \in 1..(len(intervals) - 1) : intervals[k] >= 1)
    /\ [](C20_OnceEach /\ C20_AtExit)
    /\ InLoop ~> ~InLoop

\* a run presented two due cards once each, both were recalled, a third
\* card that was not due was left alone, and the loop has ended
C20_Witness ==
    /\ answered.kept
    /\ pc = "report"
    /\ AllRecalled
    /\ NothingDue
    /\ \E a, b, c \in DOMAIN answered.by :
          /\ a # b
          /\ Presented(a) = 1
          /\ Presented(b) = 1
          /\ Presented(c) = 0

====
